---- MODULE Spec2Model ----
(***************************************************************************)
(* A model of the nostr crates: the event identity model (Keys,            *)
(* UnsignedEvent::sign, Event::verify) and the relay pool as the Client    *)
(* of crates/nostr-sdk/src/client/wasm.rs drives it.                       *)
(***************************************************************************)
EXTENDS Integers, Sequences, FiniteSets, TLC

(***************************************************************************)
(* Bounds                                                                  *)
(***************************************************************************)
\* number of distinct secret keys (identities) in the model
NumSecretKeys == 2

\* Option<T>: None is the empty sequence, Some(x) the one-element sequence
None == <<>>
Some(x) == <<x>>
IsSome(o) == Len(o) = 1
Unwrap(o) == o[1]

\* Result<T, E>
Ok(v) == [ok |-> TRUE, val |-> Some(v), err |-> "none"]
Err(e) == [ok |-> FALSE, val |-> None, err |-> e]

(***************************************************************************)
(* secp256k1 (library), as ideal cryptography                              *)
(***************************************************************************)
SecretKeys == 1..NumSecretKeys

\* XOnlyPublicKey::from_keypair: the x-only public key of a secret key
XOnlyPublicKey_from_secret(sk) == 100 + sk

PublicKeys == {XOnlyPublicKey_from_secret(sk) : sk \in SecretKeys}

\* KeyPair::from_secret_key
KeyPair_from_secret_key(sk) == [secret |-> sk, public |-> XOnlyPublicKey_from_secret(sk)]

\* auxiliary randomness Secp256k1::sign_schnorr draws for each signature
AuxRand == {0, 1}

\* Secp256k1::sign_schnorr(message, keypair), drawing aux
Secp_sign_schnorr(message, keypair, aux) ==
    [signer |-> keypair.public, msg |-> message, aux |-> aux]

\* Secp256k1::verify_schnorr(sig, message, pubkey): TRUE iff it returns Ok
Secp_verify_schnorr(sig, message, pubkey) ==
    sig.signer = pubkey /\ sig.msg = message

(***************************************************************************)
(* Event fields                                                            *)
(***************************************************************************)
Timestamps == {1640839235, 1640839236}
Kinds == {1, 4}
TagLists == {<<>>, << <<"p", "13adc5">> >>}
Contents == {"hello", "hellp"}

\* EventId::new: SHA-256 of the canonical serialization of
\* [0, pubkey, created_at, kind, tags, content], collision free
EventId_new(pubkey, created_at, kind, tags, content) ==
    <<0, pubkey, created_at, kind, tags, content>>

Payload(pubkey, created_at, kind, tags, content) ==
    [pubkey |-> pubkey, created_at |-> created_at, kind |-> kind,
     tags |-> tags, content |-> content]

\* the text note of the scenario: kind 1, content "hello", no tags
BaseNote == Payload(XOnlyPublicKey_from_secret(1), 1640839235, 1, <<>>, "hello")

FieldsChanged(p, q) ==
    Cardinality({f \in {"pubkey", "created_at", "kind", "tags", "content"} : p[f] # q[f]})

\* the payloads events are built from: the note and every payload one field away
Payloads ==
    {p \in [pubkey : PublicKeys, created_at : Timestamps, kind : Kinds,
            tags : TagLists, content : Contents] : FieldsChanged(p, BaseNote) <= 1}

ComputedId(p) == EventId_new(p.pubkey, p.created_at, p.kind, p.tags, p.content)

EventIds == {ComputedId(p) : p \in Payloads}

Signatures == [signer : PublicKeys, msg : EventIds, aux : AuxRand]

\* UnsignedEvent: its fields are public, so id and pubkey are whatever the
\* caller (or from_json) put there
UnsignedEvents ==
    {[id |-> i, pubkey |-> p.pubkey, created_at |-> p.created_at, kind |-> p.kind,
      tags |-> p.tags, content |-> p.content] : i \in EventIds, p \in Payloads}

(***************************************************************************)
(* Keys (crates/nostr/src/key/mod.rs)                                      *)
(***************************************************************************)
Keys_new(secret_key) ==
    [public_key |-> XOnlyPublicKey_from_secret(secret_key),
     key_pair |-> Some(KeyPair_from_secret_key(secret_key)),
     secret_key |-> Some(secret_key)]

Keys_from_public_key(public_key) ==
    [public_key |-> public_key, key_pair |-> None, secret_key |-> None]

\* generate / generate_with_rng: rng is the secret key the generator draws
Keys_generate(rng) == Keys_new(rng)

Keys_generate_with_rng(rng) == Keys_new(rng)

\* generate_without_keypair that stores the key pair and drops the secret key
Keys_generate_keypair_without_secret(rng) ==
    [public_key |-> XOnlyPublicKey_from_secret(rng),
     key_pair |-> Some(KeyPair_from_secret_key(rng)),
     secret_key |-> None]

Keys_generate_without_keypair(rng) ==
    [public_key |-> XOnlyPublicKey_from_secret(rng),
     key_pair |-> None,
     secret_key |-> Some(rng)]

Keys_public_key(self) == self.public_key

Keys_secret_key(self) ==
    IF IsSome(self.secret_key) THEN Ok(Unwrap(self.secret_key)) ELSE Err("SkMissing")

\* a key_pair that does not fall back on the secret key
Keys_key_pair_no_fallback(self) ==
    IF IsSome(self.key_pair) THEN Ok(Unwrap(self.key_pair)) ELSE Err("SkMissing")

Keys_key_pair(self) ==
    IF IsSome(self.key_pair)
    THEN Ok(Unwrap(self.key_pair))
    ELSE LET sk == Keys_secret_key(self)
         IN  IF sk.ok THEN Ok(KeyPair_from_secret_key(Unwrap(sk.val))) ELSE Err(sk.err)

Keys_sign_schnorr(self, message, aux) ==
    LET keypair == Keys_key_pair(self)
    IN  IF keypair.ok
        THEN Ok(Secp_sign_schnorr(message, Unwrap(keypair.val), aux))
        ELSE Err(keypair.err)

(***************************************************************************)
(* UnsignedEvent and Event (crates/nostr/src/event)                        *)
(***************************************************************************)
\* Message::from_slice(id.as_bytes()): an id is 32 bytes, so it never fails
Message_from_slice(id) == id

UnsignedEvent_sign(self, keys, aux) ==
    LET message == Message_from_slice(self.id)
        sig == Keys_sign_schnorr(keys, message, aux)
    IN  IF sig.ok
        THEN Ok([id |-> self.id, pubkey |-> self.pubkey, created_at |-> self.created_at,
                 kind |-> self.kind, tags |-> self.tags, content |-> self.content,
                 sig |-> Unwrap(sig.val)])
        ELSE Err(sig.err)

\* UnsignedEvent::sign_with_signature: the signature is attached unchecked
UnsignedEvent_sign_with_signature(self, sig) ==
    Ok([id |-> self.id, pubkey |-> self.pubkey, created_at |-> self.created_at,
        kind |-> self.kind, tags |-> self.tags, content |-> self.content, sig |-> sig])

\* a verify that accepts every signature
Event_verify_with_context_accept_all(self) == Ok("unit")

Event_verify_with_context(self) ==
    LET id == EventId_new(self.pubkey, self.created_at, self.kind, self.tags, self.content)
        message == Message_from_slice(id)
    IN  IF Secp_verify_schnorr(self.sig, message, self.pubkey)
        THEN Ok("unit")
        ELSE Err("InvalidSignature")

Event_verify(self) == Event_verify_with_context(self)

\* UnsignedEvent::add_signature: event.verify()? converts the error of
\* verify into Error::Event
UnsignedEvent_add_signature(self, sig) ==
    LET ev == [id |-> self.id, pubkey |-> self.pubkey, created_at |-> self.created_at,
               kind |-> self.kind, tags |-> self.tags, content |-> self.content,
               sig |-> sig]
        r == Event_verify(ev)
    IN  IF r.ok THEN Ok(ev) ELSE Err("Event(" \o r.err \o ")")

(***************************************************************************)
(* Relay pool: URLs, relays, the one-shot query                            *)
(***************************************************************************)
\* the strings the caller passes as relay URL
RawUrls == {"wss://x", "WSS://X/", "wss://y", "x y"}

\* Url::parse: lower-cases scheme and host and gives a ws(s) URL the root
\* path; a string with no scheme is a ParseError
Url_parse(raw) ==
    CASE raw \in {"wss://x", "WSS://X/", "wss://x/"} -> Ok("wss://x/")
      [] raw \in {"wss://y", "wss://y/"} -> Ok("wss://y/")
      [] OTHER -> Err("Url")

Urls == {Unwrap(Url_parse(raw).val) : raw \in {r \in RawUrls : Url_parse(r).ok}}

RelayStatus == {"Initialized", "Connecting", "Connected", "Disconnected", "Terminated"}

\* RelayOptions::new(read, write)
RelayOptions_new(read, write) == [read |-> read, write |-> write]

\* RelayOptions::default(): a relay to read from and to write to
RelayOptions_default == RelayOptions_new(TRUE, TRUE)

\* the options callers pass to add_relay_with_opts
RelayOptionsSet ==
    {RelayOptions_default, RelayOptions_new(TRUE, FALSE), RelayOptions_new(FALSE, TRUE)}

\* the messages a client sends: ClientMessage::new_event(..), REQ and CLOSE
Outbound(url, label) == [url |-> url, label |-> label]

\* Relay::new(url, opts)
Relay_new(url, opts) == [status |-> "Initialized", opts |-> opts]

\* the events the relays of the model deliver: the signed note, the note
\* with its content changed and not re-signed, and a second signed note
NoteSig(aux) == Secp_sign_schnorr(ComputedId(BaseNote), KeyPair_from_secret_key(1), aux)

EventOf(id, p, sig) ==
    [id |-> id, pubkey |-> p.pubkey, created_at |-> p.created_at, kind |-> p.kind,
     tags |-> p.tags, content |-> p.content, sig |-> sig]

OtherNote == [BaseNote EXCEPT !.kind = 4]

EvNote == EventOf(ComputedId(BaseNote), BaseNote, NoteSig(0))

EvNoteEdited == EventOf(ComputedId(BaseNote), [BaseNote EXCEPT !.content = "hellp"], NoteSig(0))

EvOther ==
    EventOf(ComputedId(OtherNote), OtherNote,
            Secp_sign_schnorr(ComputedId(OtherNote), KeyPair_from_secret_key(1), 0))

RelayEvents == {EvNote, EvNoteEdited, EvOther}

\* an event whose signature is a signature of its pubkey over the id of its
\* own pubkey, created_at, kind, tags and content
ValidEvent(e) ==
    Secp_verify_schnorr(e.sig, EventId_new(e.pubkey, e.created_at, e.kind, e.tags, e.content),
                        e.pubkey)

IdsOf(events) == {events[i].id : i \in 1..Len(events)}

\* RelayPool::add_relay: a no-op for a URL the map already holds
RelayPool_add_relay(map, url, opts) ==
    IF url \in DOMAIN map THEN Ok(map) ELSE Ok(map @@ (url :> Relay_new(url, opts)))

\* a pool that was shut down answers every call with its terminal error
RelayPool_usable(isClosed, r) == IF isClosed THEN Err("PoolClosed") ELSE r

\* RelayPool::remove_relay: terminate the relay and drop it from the map
RelayPool_remove_relay(map, url) ==
    IF url \in DOMAIN map
    THEN Ok([map |-> [u \in DOMAIN map \ {url} |-> map[u]],
             relay |-> Some([url |-> url, status |-> "Terminated"])])
    ELSE Err("RelayNotFound")

\* connect that starts a connection for a terminated relay too
RelayPool_connect_restarting(map) ==
    [u \in DOMAIN map |->
        IF map[u].status \in {"Initialized", "Disconnected", "Terminated"}
        THEN [map[u] EXCEPT !.status = "Connecting"]
        ELSE map[u]]

\* RelayPool::connect: every relay that is not connected starts connecting
RelayPool_connect(map) ==
    [u \in DOMAIN map |->
        IF map[u].status \in {"Initialized", "Disconnected"}
        THEN [map[u] EXCEPT !.status = "Connecting"]
        ELSE map[u]]

\* no get_events_of call yet
IdleQuery ==
    [phase |-> "idle", targets |-> {}, live |-> {}, eose |-> {}, events |-> <<>>,
     timeout |-> None]

\* RelayPool::get_events_of: the temporary subscription goes to the
\* connected relays; the call waits for EOSE of every relay of the pool, or
\* for the timeout when it is given one
RelayPool_get_events_of(map, timeout) ==
    [phase |-> "pending", targets |-> DOMAIN map,
     live |-> {u \in DOMAIN map : map[u].status = "Connected"},
     eose |-> {}, events |-> <<>>, timeout |-> timeout]

\* collecting without looking at the ids already there
Collect_push(events, e) == Append(events, e)

\* one EVENT of the temporary subscription: kept unless its id is there already
Collect(events, e) == IF e.id \in IdsOf(events) THEN events ELSE Append(events, e)

\* the pool's handling of an EVENT message from relay url: verify first,
\* then publish the notification and feed the call in flight
\* (relay is the Relay the message came from: it stays as it is)
RelayPool_received_event(url, relay, e, q) ==
    IF ~Event_verify(e).ok
    THEN [query |-> q, sent |-> None, relay |-> relay]
    ELSE [query |-> IF q.phase = "pending" /\ url \in q.live
                    THEN [q EXCEPT !.events = Collect(q.events, e)]
                    ELSE q,
          sent |-> Some([event |-> e, url |-> url]),
          relay |-> relay]

\* a reconnect hook that sends nothing
Relay_resubscribe_nothing(url, relay, fs) == {}

\* the reconnect hook: a relay that enters Connected is sent the stored
\* filters as REQ, if it is a relay to read from
Relay_resubscribe(url, relay, fs) ==
    IF IsSome(fs) /\ relay.opts.read THEN {Outbound(url, "REQ")} ELSE {}

\* the bound of the notification counter
MaxNotifications == 3

\* the number of notifications the broadcast channel retains
ChannelCapacity == 2

\* broadcast::Sender::send: with no receiver the value is not stored; the
\* notifications are numbered in the order they are published
Broadcast_send(ch, rcvs) ==
    IF DOMAIN rcvs = {} \/ ch.closed THEN ch ELSE [ch EXCEPT !.published = @ + 1]

\* the oldest notification the channel still retains
Broadcast_oldest(ch) ==
    IF ch.published > ChannelCapacity THEN ch.published - ChannelCapacity + 1 ELSE 1

\* a receiver that is handed the retained notifications too
Broadcast_subscribe_replay(ch) ==
    [next |-> Broadcast_oldest(ch), got |-> <<>>, born |-> ch.published, lagged |-> FALSE]

\* broadcast::Sender::subscribe: the new receiver sees what is sent from now
\* on (got, born and lagged record what it received, how many notifications
\* were published before it, and whether it was ever told it lagged)
Broadcast_subscribe(ch) ==
    [next |-> ch.published + 1, got |-> <<>>, born |-> ch.published, lagged |-> FALSE]

\* broadcast::Receiver::recv: the next notification; Lagged when the channel
\* no longer retains it, the cursor moving to the oldest retained one;
\* Closed when nothing is left and the channel is closed; Empty when recv waits
Broadcast_recv(ch, rx) ==
    IF rx.next < Broadcast_oldest(ch)
    THEN [res |-> "Lagged", rx |-> [rx EXCEPT !.next = Broadcast_oldest(ch), !.lagged = TRUE]]
    ELSE IF rx.next <= ch.published
         THEN [res |-> "Ok", rx |-> [rx EXCEPT !.next = @ + 1, !.got = Append(@, rx.next)]]
         ELSE [res |-> IF ch.closed THEN "Closed" ELSE "Empty", rx |-> rx]

\* the sender is dropped: the channel is closed
Broadcast_close(ch) == [ch EXCEPT !.closed = TRUE]

(***************************************************************************)
(* State                                                                   *)
(***************************************************************************)
VARIABLES
    keys,        \* Option<Keys>: the Keys value built last
    event,       \* Option<Event>: the event these keys signed last, possibly edited since
    signRes,     \* "none", "Ok" or the error of the last UnsignedEvent::sign
    edited,      \* "none" or the one field of the event changed after signing
    baseOk,      \* whether the event verified before that field was changed
    verifyRes,   \* "none", "Ok" or the error of the last Event::verify
    relays,      \* the pool's map: Url -> Relay
    query,       \* the get_events_of call in flight, or the last one
    received,    \* Option: the EVENT message a relay delivered last, with its relay
    notified,    \* Option: the notification the pool published for it
    ret,         \* the Client call that returned last and what it returned
    qFed,        \* the (relay, event id) pairs of the verified EVENTs fed to the call in flight
    closed,      \* whether shutdown has marked the pool as no longer usable
    clones,      \* the Client handles alive: Client is Clone, the clones share one pool
    filters,     \* Option: the pool's stored subscription filters
    sent,        \* the messages the last pool step queued for relays
    chan,        \* the pool's broadcast channel of notifications
    receivers,   \* the receivers notifications() handed out
    handler,     \* the handle_notifications loop
    wire,        \* Option: the JSON text decoded last
    decoded,     \* the results of the last decodes, the latest last
    stamp,       \* Option: the Timestamp built last, with what it was built from
    badge,       \* Option: the last BadgeAward::new call, its arguments and its result
    signed,      \* Option: the last UnsignedEvent::add_signature call and its result
    arith,       \* Option: the last Timestamp addition or subtraction and its result
    parsed,      \* Option: the last Keys::from_sk_str or from_pk_str call and its result
    pending      \* the connect_relay and disconnect_relay calls between their look-up and their act

evars == <<keys, event, signRes, edited, baseOk, verifyRes>>

cvars == <<closed, clones, filters, sent>>

nvars == <<chan, receivers, handler>>

pvars == <<relays, query, received, notified, ret, qFed, cvars, nvars>>

\* the results of the constructors called last
fvars == <<badge, signed, arith, parsed>>

dvars == <<wire, decoded, stamp, fvars>>

\* the calls in flight
avars == <<pending>>

vars == <<evars, pvars, dvars, avars>>

\* broadcast::channel: nothing published, the sender alive
NewChannel == [published |-> 0, closed |-> FALSE]

\* handle_notifications not called
IdleHandler == [pc |-> "idle", last |-> "none", res |-> "none"]

ResultName(r) == IF r.ok THEN "Ok" ELSE r.err

NoCall == [op |-> "none", had |-> FALSE, wasClosed |-> FALSE, res |-> "none", relay |-> None]

\* the Client handles: Client::new makes the first, clone() the others
Clients == {1, 2}

Init ==
    /\ keys = None
    /\ event = None
    /\ signRes = "none"
    /\ edited = "none"
    /\ baseOk = FALSE
    /\ verifyRes = "none"
    /\ relays = << >>
    /\ query = IdleQuery
    /\ received = None
    /\ notified = None
    /\ ret = NoCall
    /\ qFed = {}
    /\ closed = FALSE
    /\ clones = {1}
    /\ filters = None
    /\ sent = {}
    /\ chan = NewChannel
    /\ receivers = << >>
    /\ handler = IdleHandler
    /\ wire = None
    /\ decoded = <<>>
    /\ stamp = None
    /\ badge = None
    /\ signed = None
    /\ arith = None
    /\ parsed = None
    /\ pending = {}

(***************************************************************************)
(* Keys, signing and verification                                          *)
(***************************************************************************)
\* a new Keys value: nothing is signed with it yet
SetKeys(k) ==
    /\ keys' = Some(k)
    /\ event' = None
    /\ signRes' = "none"
    /\ edited' = "none"
    /\ baseOk' = FALSE
    /\ verifyRes' = "none"
    /\ UNCHANGED <<pvars, dvars, avars>>

NewKeys == \E sk \in SecretKeys : SetKeys(Keys_new(sk))

FromPublicKey == \E pk \in PublicKeys : SetKeys(Keys_from_public_key(pk))

Generate == \E rng \in SecretKeys : SetKeys(Keys_generate(rng))

GenerateWithRng == \E rng \in SecretKeys : SetKeys(Keys_generate_with_rng(rng))

GenerateWithoutKeypair ==
    \E rng \in SecretKeys : SetKeys(Keys_generate_without_keypair(rng))

\* u.sign(&keys) for an unsigned event u of the caller
Sign ==
    /\ IsSome(keys)
    /\ \E u \in UnsignedEvents, aux \in AuxRand :
        LET r == UnsignedEvent_sign(u, Unwrap(keys), aux)
        IN  /\ signRes' = ResultName(r)
            /\ event' = r.val
    /\ edited' = "none"
    /\ baseOk' = FALSE
    /\ verifyRes' = "none"
    /\ UNCHANGED <<keys, pvars, dvars, avars>>

FieldValues(f) ==
    CASE f = "id" -> EventIds
      [] f = "pubkey" -> PublicKeys
      [] f = "created_at" -> Timestamps
      [] f = "kind" -> Kinds
      [] f = "tags" -> TagLists
      [] f = "content" -> Contents
      [] f = "sig" -> Signatures

EventFields == <<"id", "pubkey", "created_at", "kind", "tags", "content", "sig">>

\* the fields of Event are public: change exactly one of them, once
Edit ==
    /\ IsSome(event)
    /\ edited = "none"
    /\ \E i \in 1..Len(EventFields) :
        \E v \in FieldValues(EventFields[i]) \ {Unwrap(event)[EventFields[i]]} :
            /\ event' = Some([Unwrap(event) EXCEPT ![EventFields[i]] = v])
            /\ edited' = EventFields[i]
    /\ baseOk' = Event_verify(Unwrap(event)).ok
    /\ verifyRes' = "none"
    /\ UNCHANGED <<keys, signRes, pvars, dvars, avars>>

\* event.verify()
Verify ==
    /\ IsSome(event)
    /\ verifyRes' = ResultName(Event_verify(Unwrap(event)))
    /\ UNCHANGED <<keys, event, signRes, edited, baseOk, pvars, dvars, avars>>

NextEvent ==
    \/ NewKeys
    \/ FromPublicKey
    \/ Generate
    \/ GenerateWithRng
    \/ GenerateWithoutKeypair
    \/ Sign
    \/ Edit
    \/ Verify

SpecEvent == Init /\ [][NextEvent]_vars

\* the strings handed to from_sk_str and from_pk_str: 64 hex digits of a
\* 32-byte value, the bech32 form of a secret key (nsec1..) or of a public
\* key (npub1..), and a string that is none of them
KeyTexts ==
    {<<"hex", v>> : v \in {0} \cup SecretKeys \cup PublicKeys}
    \cup {<<"nsec", sk>> : sk \in SecretKeys}
    \cup {<<"npub", pk>> : pk \in PublicKeys}
    \cup {<<"junk">>}

\* SecretKey::from_str: every 32-byte value but zero is a secret key
SecretKey_from_str(text) ==
    IF text[1] = "hex" /\ text[2] # 0 THEN Ok(text[2]) ELSE Err("Secp256k1")

\* SecretKey::from_bech32
SecretKey_from_bech32(text) ==
    IF text[1] = "nsec" THEN Ok(text[2]) ELSE Err("Nip19")

\* XOnlyPublicKey::from_str: the value has to be the x of a point of the curve
XOnlyPublicKey_from_str(text) ==
    IF text[1] = "hex" /\ text[2] \in PublicKeys THEN Ok(text[2]) ELSE Err("Secp256k1")

\* XOnlyPublicKey::from_bech32
XOnlyPublicKey_from_bech32(text) ==
    IF text[1] = "npub" THEN Ok(text[2]) ELSE Err("Nip19")

\* <Keys as FromSkStr>::from_sk_str
Keys_from_sk_str(secret_key) ==
    LET hex == SecretKey_from_str(secret_key)
    IN  IF hex.ok
        THEN Ok(Keys_new(Unwrap(hex.val)))
        ELSE LET bech32 == SecretKey_from_bech32(secret_key)
             IN  IF bech32.ok
                 THEN Ok(Keys_new(Unwrap(bech32.val)))
                 ELSE Err("InvalidSecretKey")

\* <Keys as FromPkStr>::from_pk_str
Keys_from_pk_str(public_key) ==
    LET hex == XOnlyPublicKey_from_str(public_key)
    IN  IF hex.ok
        THEN Ok(Keys_from_public_key(Unwrap(hex.val)))
        ELSE LET bech32 == XOnlyPublicKey_from_bech32(public_key)
             IN  IF bech32.ok
                 THEN Ok(Keys_from_public_key(Unwrap(bech32.val)))
                 ELSE Err("InvalidSecretKey")

\* Keys::from_sk_str(text) or Keys::from_pk_str(text): the Keys it returns
\* are the caller's keys from then on
ParseKeys(op, r, text) ==
    /\ parsed' = Some([op |-> op, text |-> text, res |-> ResultName(r), keys |-> r.val])
    /\ keys' = IF r.ok THEN r.val ELSE keys
    /\ event' = IF r.ok THEN None ELSE event
    /\ signRes' = IF r.ok THEN "none" ELSE signRes
    /\ verifyRes' = IF r.ok THEN "none" ELSE verifyRes
    /\ UNCHANGED <<edited, baseOk, pvars, avars, wire, decoded, stamp, badge, signed, arith>>

FromSkStr == \E text \in KeyTexts : ParseKeys("from_sk_str", Keys_from_sk_str(text), text)

FromPkStr == \E text \in KeyTexts : ParseKeys("from_pk_str", Keys_from_pk_str(text), text)

NextKeyText ==
    \/ FromSkStr
    \/ FromPkStr
    \/ Sign
    \/ Verify

SpecKeyText == Init /\ [][NextKeyText]_vars

\* u.add_signature(sig) for an unsigned event u and a signature sig of the caller
AddSignature ==
    /\ \E u \in UnsignedEvents, sig \in Signatures :
        LET r == UnsignedEvent_add_signature(u, sig)
        IN  signed' = Some([unsigned |-> u, sig |-> sig, res |-> ResultName(r),
                            event |-> r.val])
    /\ UNCHANGED <<evars, pvars, avars, wire, decoded, stamp, badge, arith, parsed>>

NextSignature ==
    \/ AddSignature

SpecSignature == Init /\ [][NextSignature]_vars

(***************************************************************************)
(* The relay pool as Client drives it                                      *)
(***************************************************************************)
\* the record of a call: had tells whether the map held the URL when it was
\* made, wasClosed whether the pool was shut down already
Call(op, raw, res) ==
    [op |-> op,
     had |-> Url_parse(raw).ok /\ Unwrap(Url_parse(raw).val) \in DOMAIN relays,
     wasClosed |-> closed,
     res |-> res, relay |-> None]

\* what a Client method returns for the pool's result r, converted by `?`
ClientResult(r) == IF r.ok THEN "Ok" ELSE "RelayPool(" \o r.err \o ")"

\* a relay that leaves Connected loses the subscriptions it held
Unsubscribed(q, url) == [q EXCEPT !.live = @ \ {url}]

\* add_relay_with_opts with the string itself as the key of the map
Client_add_relay_with_opts_unparsed(raw, opts) ==
    /\ relays' = Unwrap(RelayPool_add_relay(relays, raw, opts).val)
    /\ ret' = Call("add_relay", raw, "Ok")

\* Client::add_relay_with_opts
Client_add_relay_with_opts(raw, opts) ==
    LET url == Url_parse(raw)
    IN  IF ~url.ok
        THEN /\ ret' = Call("add_relay", raw, url.err)
             /\ UNCHANGED relays
        ELSE LET r == RelayPool_usable(closed,
                                       RelayPool_add_relay(relays, Unwrap(url.val), opts))
             IN  /\ relays' = IF r.ok THEN Unwrap(r.val) ELSE relays
                 /\ ret' = Call("add_relay", raw, ClientResult(r))

\* Client::add_relay
Client_add_relay(raw) == Client_add_relay_with_opts(raw, RelayOptions_default)

AddRelayStep(raw) ==
    /\ clones # {}
    /\ Client_add_relay(raw)
    /\ sent' = {}
    /\ UNCHANGED <<evars, dvars, avars, query, received, notified, qFed, closed, clones, filters, nvars>>

AddRelay == \E raw \in RawUrls : AddRelayStep(raw)

\* remove_relay that drops the pool's error
Client_remove_relay_ignoring_error(raw) ==
    LET url == Url_parse(raw)
    IN  IF ~url.ok
        THEN /\ ret' = Call("remove_relay", raw, url.err)
             /\ UNCHANGED <<relays, query>>
        ELSE LET r == RelayPool_usable(closed, RelayPool_remove_relay(relays, Unwrap(url.val)))
             IN  /\ relays' = IF r.ok THEN Unwrap(r.val).map ELSE relays
                 /\ query' = Unsubscribed(query, Unwrap(url.val))
                 /\ ret' = [Call("remove_relay", raw, "Ok") EXCEPT
                               !.relay = IF r.ok THEN Unwrap(r.val).relay ELSE None]

\* Client::remove_relay
Client_remove_relay(raw) ==
    LET url == Url_parse(raw)
    IN  IF ~url.ok
        THEN /\ ret' = Call("remove_relay", raw, url.err)
             /\ UNCHANGED <<relays, query>>
        ELSE LET r == RelayPool_usable(closed, RelayPool_remove_relay(relays, Unwrap(url.val)))
             IN  IF r.ok
                 THEN /\ relays' = Unwrap(r.val).map
                      /\ query' = Unsubscribed(query, Unwrap(url.val))
                      /\ ret' = [Call("remove_relay", raw, "Ok") EXCEPT
                                    !.relay = Unwrap(r.val).relay]
                 ELSE /\ ret' = Call("remove_relay", raw, ClientResult(r))
                      /\ UNCHANGED <<relays, query>>

\* the Relay values that calls in flight took out of a copy of the map share
\* their state with the map's relay: once remove_relay has dropped the relay
\* of url they are handles on a relay outside the map
Detach(calls, map, url) ==
    {IF p.url = url /\ url \in DOMAIN map THEN [p EXCEPT !.detached = TRUE] ELSE p : p \in calls}

RemoveRelayStep(raw) ==
    /\ clones # {}
    /\ Client_remove_relay(raw)
    /\ pending' = IF Url_parse(raw).ok /\ ~closed
                  THEN Detach(pending, relays, Unwrap(Url_parse(raw).val))
                  ELSE pending
    /\ sent' = {}
    /\ UNCHANGED <<evars, dvars, received, notified, qFed, closed, clones, filters, nvars>>

RemoveRelay == \E raw \in RawUrls : RemoveRelayStep(raw)

\* Client::connect: returns nothing, whatever the pool answers
Client_connect ==
    /\ clones # {}
    /\ LET r == RelayPool_usable(closed, Ok(RelayPool_connect(relays)))
       IN  relays' = IF r.ok THEN Unwrap(r.val) ELSE relays
    /\ ret' = Call("connect", "none", "unit")
    /\ sent' = {}
    /\ UNCHANGED <<evars, dvars, avars, query, received, notified, qFed, closed, clones, filters, nvars>>

SetStatus(u, from, to) ==
    /\ u \in DOMAIN relays
    /\ relays[u].status = from
    /\ relays' = [relays EXCEPT ![u].status = to]

\* Connecting --success--> Connected: the stored filters are sent as REQ
ConnectSucceeds ==
    /\ \E u \in Urls :
        /\ SetStatus(u, "Connecting", "Connected")
        /\ sent' = Relay_resubscribe(u, relays[u], filters)
    /\ UNCHANGED <<evars, dvars, avars, query, received, notified, ret, qFed, closed, clones, filters, nvars>>

\* Connecting --failure--> Disconnected
ConnectFails ==
    /\ \E u \in Urls : SetStatus(u, "Connecting", "Disconnected")
    /\ sent' = {}
    /\ UNCHANGED <<evars, dvars, avars, query, received, notified, ret, qFed, closed, clones, filters, nvars>>

\* Connected --transport error / remote close--> Disconnected
TransportError ==
    /\ \E u \in Urls :
        /\ SetStatus(u, "Connected", "Disconnected")
        /\ query' = Unsubscribed(query, u)
    /\ sent' = {}
    /\ UNCHANGED <<evars, dvars, avars, received, notified, ret, qFed, closed, clones, filters, nvars>>

\* a relay that gives up instead of retrying
GiveUpRelay(u) ==
    /\ SetStatus(u, "Disconnected", "Terminated")
    /\ sent' = {}
    /\ UNCHANGED <<evars, dvars, avars, query, received, notified, ret, qFed, closed, clones, filters, nvars>>

\* the retry of relay u after the backoff delay
RetryRelay(u) ==
    /\ SetStatus(u, "Disconnected", "Connecting")
    /\ sent' = {}
    /\ UNCHANGED <<evars, dvars, avars, query, received, notified, ret, qFed, closed, clones, filters, nvars>>

Retry == \E u \in Urls : RetryRelay(u)

\* Client::get_events_of(filters): no timeout is passed on
Client_get_events_of ==
    /\ clones # {}
    /\ query.phase # "pending"
    /\ LET r == RelayPool_usable(closed, Ok(RelayPool_get_events_of(relays, None)))
       IN  IF r.ok
           THEN query' = Unwrap(r.val) /\ UNCHANGED ret
           ELSE ret' = Call("get_events_of", "none", ClientResult(r)) /\ UNCHANGED query
    /\ qFed' = {}
    /\ sent' = {}
    /\ UNCHANGED <<evars, dvars, avars, relays, received, notified, closed, clones, filters, nvars>>

\* a connected relay delivers an EVENT message
RelayEvent ==
    /\ DOMAIN receivers = {} \/ chan.published < MaxNotifications
    /\ \E u \in DOMAIN relays, e \in RelayEvents :
        /\ relays[u].status = "Connected"
        /\ LET r == RelayPool_received_event(u, relays[u], e, query)
           IN  /\ query' = r.query
               /\ notified' = r.sent
               /\ relays' = [relays EXCEPT ![u] = r.relay]
               /\ chan' = IF IsSome(r.sent) THEN Broadcast_send(chan, receivers) ELSE chan
        /\ received' = Some([event |-> e, url |-> u])
        /\ qFed' = IF query.phase = "pending" /\ u \in query.live /\ ValidEvent(e)
                   THEN qFed \cup {<<u, e.id>>}
                   ELSE qFed
    /\ sent' = {}
    /\ UNCHANGED <<evars, dvars, avars, ret, closed, clones, filters, receivers, handler>>

\* a relay holding the temporary subscription signals EOSE
RelayEose ==
    /\ query.phase = "pending"
    /\ \E u \in query.live \ query.eose : query' = [query EXCEPT !.eose = @ \cup {u}]
    /\ sent' = {}
    /\ UNCHANGED <<evars, dvars, avars, relays, received, notified, ret, qFed, closed, clones, filters, nvars>>

\* the call returns what it collected; the temporary subscription is closed
Resolved(q) == [IdleQuery EXCEPT !.phase = "done", !.events = q.events]

\* get_events_of returns once every relay has signalled EOSE
GetEventsOfResolve ==
    /\ query.phase = "pending"
    /\ query.targets \subseteq query.eose
    /\ query' = Resolved(query)
    /\ ret' = Call("get_events_of", "none", "Ok")
    /\ qFed' = {}
    /\ sent' = {}
    /\ UNCHANGED <<evars, dvars, avars, relays, received, notified, closed, clones, filters, nvars>>

\* the timeout of a get_events_of call that was given one elapses
TimeoutElapses ==
    /\ query.phase = "pending"
    /\ IsSome(query.timeout)
    /\ query' = Resolved(query)
    /\ ret' = Call("get_events_of", "none", "Ok")
    /\ qFed' = {}
    /\ sent' = {}
    /\ UNCHANGED <<evars, dvars, avars, relays, received, notified, closed, clones, filters, nvars>>

Next ==
    \/ AddRelay
    \/ RemoveRelay
    \/ Client_connect
    \/ ConnectSucceeds
    \/ ConnectFails
    \/ TransportError
    \/ Retry
    \/ Client_get_events_of
    \/ RelayEvent
    \/ RelayEose
    \/ GetEventsOfResolve

Spec == Init /\ [][Next]_vars

\* the runtime keeps polling a call that can return, and fires an armed timer
FairSpec ==
    Init /\ [][Next]_vars /\ WF_vars(GetEventsOfResolve) /\ WF_vars(TimeoutElapses)

(***************************************************************************)
(* Subscriptions, sending, single relays and shutdown                      *)
(***************************************************************************)
Connected(map) == {u \in DOMAIN map : map[u].status = "Connected"}

\* the relays that leave Connected lose the subscriptions they held
StillLive(q, map) == [q EXCEPT !.live = @ \cap Connected(map)]

\* RelayPool::disconnect: every relay goes to Terminated
RelayPool_disconnect(map) == [u \in DOMAIN map |-> [map[u] EXCEPT !.status = "Terminated"]]

\* RelayPool::shutdown: disconnect and terminate every relay
RelayPool_shutdown(map) == RelayPool_disconnect(map)

\* RelayPool::subscribe: REQ to every connected relay able to read
RelayPool_subscribe(map) == {Outbound(u, "REQ") : u \in {v \in Connected(map) : map[v].opts.read}}

\* RelayPool::unsubscribe: CLOSE for the active subscription to the relays
\* that were sent its REQ
RelayPool_unsubscribe(map, fs) ==
    IF IsSome(fs)
    THEN {Outbound(u, "CLOSE") : u \in {v \in Connected(map) : map[v].opts.read}}
    ELSE {}

\* send_msg with no look at the write flag
RelayPool_send_msg_to_all(map) == {Outbound(u, "EVENT") : u \in DOMAIN map}

\* RelayPool::send_msg: the message is queued for every relay able to write
RelayPool_send_msg(map) ==
    {Outbound(u, "EVENT") : u \in {v \in DOMAIN map : map[v].opts.write}}

\* RelayPool::send_msg_to: the message is queued for the relay of that URL
RelayPool_send_msg_to(map, url) ==
    IF url \in DOMAIN map
    THEN Ok(IF map[url].opts.write THEN {Outbound(url, "EVENT")} ELSE {})
    ELSE Err("RelayNotFound")

\* RelayPool::connect_relay: the relay starts connecting unless it is
\* connecting, connected or terminated
RelayPool_connect_relay(map, url) ==
    IF map[url].status \in {"Initialized", "Disconnected"}
    THEN [map EXCEPT ![url].status = "Connecting"]
    ELSE map

\* a disconnect_relay that closes the transport and leaves the retry policy on
RelayPool_close_relay(map, url) == [map EXCEPT ![url].status = "Disconnected"]

\* RelayPool::disconnect_relay: explicit disconnect, the relay is Terminated
RelayPool_disconnect_relay(map, url) == [map EXCEPT ![url].status = "Terminated"]

\* Client::clone: one more handle on the same pool
CloneClient ==
    /\ clones # {}
    /\ \E c \in Clients \ clones : clones' = clones \cup {c}
    /\ UNCHANGED <<evars, dvars, avars, relays, query, received, notified, ret, qFed, closed, filters, sent,
                   nvars>>

\* Client::shutdown(self): the handle is consumed
Client_shutdown ==
    /\ \E c \in clones : clones' = clones \ {c}
    /\ LET r == RelayPool_usable(closed, Ok(RelayPool_shutdown(relays)))
       IN  /\ relays' = IF r.ok THEN Unwrap(r.val) ELSE relays
           /\ ret' = Call("shutdown", "none", ClientResult(r))
    /\ closed' = TRUE
    /\ chan' = Broadcast_close(chan)
    /\ query' = StillLive(query, relays')
    /\ sent' = {}
    /\ UNCHANGED <<evars, dvars, avars, received, notified, qFed, filters, receivers, handler>>

\* Client::disconnect
Client_disconnect ==
    /\ clones # {}
    /\ LET r == RelayPool_usable(closed, Ok(RelayPool_disconnect(relays)))
       IN  /\ relays' = IF r.ok THEN Unwrap(r.val) ELSE relays
           /\ ret' = Call("disconnect", "none", ClientResult(r))
    /\ query' = StillLive(query, relays')
    /\ sent' = {}
    /\ UNCHANGED <<evars, dvars, avars, received, notified, qFed, closed, clones, filters, nvars>>

AddRelayWithOptsStep(raw, opts) ==
    /\ clones # {}
    /\ Client_add_relay_with_opts(raw, opts)
    /\ sent' = {}
    /\ UNCHANGED <<evars, dvars, avars, query, received, notified, qFed, closed, clones, filters, nvars>>

AddRelayWithOpts == \E raw \in RawUrls, opts \in RelayOptionsSet : AddRelayWithOptsStep(raw, opts)

\* Client::subscribe: returns nothing, whatever the pool answers
Client_subscribe ==
    /\ clones # {}
    /\ LET r == RelayPool_usable(closed, Ok(RelayPool_subscribe(relays)))
       IN  /\ sent' = IF r.ok THEN Unwrap(r.val) ELSE {}
           /\ filters' = IF r.ok THEN Some("filters") ELSE filters
    /\ ret' = Call("subscribe", "none", "unit")
    /\ UNCHANGED <<evars, dvars, avars, relays, query, received, notified, qFed, closed, clones, nvars>>

\* unsubscribe that sends CLOSE and leaves the stored filters in place
Client_unsubscribe_keeping_filters ==
    /\ clones # {}
    /\ sent' = IF closed THEN {} ELSE RelayPool_unsubscribe(relays, filters)
    /\ ret' = Call("unsubscribe", "none", "unit")
    /\ UNCHANGED <<evars, dvars, avars, relays, query, received, notified, qFed, closed, clones, filters,
                   nvars>>

\* Client::unsubscribe: returns nothing, whatever the pool answers
Client_unsubscribe ==
    /\ clones # {}
    /\ LET r == RelayPool_usable(closed, Ok(RelayPool_unsubscribe(relays, filters)))
       IN  /\ sent' = IF r.ok THEN Unwrap(r.val) ELSE {}
           /\ filters' = IF r.ok THEN None ELSE filters
    /\ ret' = Call("unsubscribe", "none", "unit")
    /\ UNCHANGED <<evars, dvars, avars, relays, query, received, notified, qFed, closed, clones, nvars>>

\* Client::send_msg
Client_send_msg ==
    /\ clones # {}
    /\ LET r == RelayPool_usable(closed, Ok(RelayPool_send_msg(relays)))
       IN  /\ sent' = IF r.ok THEN Unwrap(r.val) ELSE {}
           /\ ret' = Call("send_msg", "none", ClientResult(r))
    /\ UNCHANGED <<evars, dvars, avars, relays, query, received, notified, qFed, closed, clones, filters,
                   nvars>>

\* Client::send_msg_to
Client_send_msg_to(raw) ==
    LET url == Url_parse(raw)
    IN  IF ~url.ok
        THEN /\ ret' = Call("send_msg_to", raw, url.err)
             /\ sent' = {}
        ELSE LET r == RelayPool_usable(closed, RelayPool_send_msg_to(relays, Unwrap(url.val)))
             IN  /\ sent' = IF r.ok THEN Unwrap(r.val) ELSE {}
                 /\ ret' = Call("send_msg_to", raw, ClientResult(r))

SendMsgToStep(raw) ==
    /\ clones # {}
    /\ Client_send_msg_to(raw)
    /\ UNCHANGED <<evars, dvars, avars, relays, query, received, notified, qFed, closed, clones, filters,
                   nvars>>

SendMsgTo == \E raw \in RawUrls : SendMsgToStep(raw)

\* connect_relay with no look at the pool's map
Client_connect_relay_unchecked(raw) ==
    LET url == Url_parse(raw)
    IN  /\ ret' = Call("connect_relay", raw, IF url.ok THEN "Ok" ELSE url.err)
        /\ relays' = IF url.ok /\ Unwrap(url.val) \in DOMAIN relays
                     THEN RelayPool_connect_relay(relays, Unwrap(url.val))
                     ELSE relays

\* Client::connect_relay: looks the relay up in the pool's map first
Client_connect_relay(raw) ==
    LET url == Url_parse(raw)
    IN  IF ~url.ok
        THEN /\ ret' = Call("connect_relay", raw, url.err)
             /\ UNCHANGED relays
        ELSE IF Unwrap(url.val) \in DOMAIN relays
             THEN LET r == RelayPool_usable(closed,
                                            Ok(RelayPool_connect_relay(relays, Unwrap(url.val))))
                  IN  /\ relays' = IF r.ok THEN Unwrap(r.val) ELSE relays
                      /\ ret' = Call("connect_relay", raw, "Ok")
             ELSE /\ ret' = Call("connect_relay", raw, "RelayNotFound")
                  /\ UNCHANGED relays

ConnectRelayStep(raw) ==
    /\ clones # {}
    /\ Client_connect_relay(raw)
    /\ sent' = {}
    /\ UNCHANGED <<evars, dvars, avars, query, received, notified, qFed, closed, clones, filters, nvars>>

ConnectRelay == \E raw \in RawUrls : ConnectRelayStep(raw)

\* Client::disconnect_relay: looks the relay up in the pool's map first
Client_disconnect_relay(raw) ==
    LET url == Url_parse(raw)
    IN  IF ~url.ok
        THEN /\ ret' = Call("disconnect_relay", raw, url.err)
             /\ UNCHANGED relays
        ELSE IF Unwrap(url.val) \in DOMAIN relays
             THEN LET r == RelayPool_usable(closed,
                                            Ok(RelayPool_disconnect_relay(relays, Unwrap(url.val))))
                  IN  /\ relays' = IF r.ok THEN Unwrap(r.val) ELSE relays
                      /\ ret' = Call("disconnect_relay", raw, ClientResult(r))
             ELSE /\ ret' = Call("disconnect_relay", raw, "RelayNotFound")
                  /\ UNCHANGED relays

DisconnectRelayStep(raw) ==
    /\ clones # {}
    /\ Client_disconnect_relay(raw)
    /\ query' = StillLive(query, relays')
    /\ sent' = {}
    /\ UNCHANGED <<evars, dvars, avars, received, notified, qFed, closed, clones, filters, nvars>>

DisconnectRelay == \E raw \in RawUrls : DisconnectRelayStep(raw)

NextOps ==
    \/ AddRelayWithOpts
    \/ Client_connect
    \/ ConnectSucceeds
    \/ ConnectFails
    \/ TransportError
    \/ Retry
    \/ CloneClient
    \/ Client_shutdown
    \/ Client_disconnect
    \/ Client_subscribe
    \/ Client_unsubscribe
    \/ Client_send_msg
    \/ SendMsgTo
    \/ ConnectRelay
    \/ DisconnectRelay
    \/ Client_get_events_of

SpecOps == Init /\ [][NextOps]_vars

(***************************************************************************)
(* The notification channel                                                *)
(***************************************************************************)
\* the receivers callers hold
ReceiverIds == {1, 2}

\* Client::notifications: a new receiver of the pool's channel
Client_notifications(ch) == Broadcast_subscribe(ch)

Notifications ==
    /\ clones # {}
    /\ \E r \in ReceiverIds \ DOMAIN receivers :
        receivers' = receivers @@ (r :> Client_notifications(chan))
    /\ UNCHANGED <<evars, dvars, avars, relays, query, received, notified, ret, qFed, cvars, chan, handler>>

\* the pool publishes a lifecycle notice
LifecycleNotice ==
    /\ ~closed
    /\ chan.published < MaxNotifications
    /\ chan' = Broadcast_send(chan, receivers)
    /\ UNCHANGED <<evars, dvars, avars, relays, query, received, notified, ret, qFed, cvars, receivers,
                   handler>>

\* a caller's receiver.recv().await returns
Recv ==
    /\ \E r \in DOMAIN receivers \cap ReceiverIds :
        LET x == Broadcast_recv(chan, receivers[r])
        IN  /\ x.res \in {"Ok", "Lagged"}
            /\ receivers' = [receivers EXCEPT ![r] = x.rx]
    /\ UNCHANGED <<evars, dvars, avars, relays, query, received, notified, ret, qFed, cvars, chan, handler>>

\* the receiver of the handle_notifications loop
HandlerReceiver == 0

WithReceiver(rcvs, r, rx) ==
    [q \in DOMAIN rcvs \cup {r} |-> IF q = r THEN rx ELSE rcvs[q]]

WithoutReceiver(rcvs, r) == [q \in DOMAIN rcvs \ {r} |-> rcvs[q]]

\* client.handle_notifications(func) is called
HandleNotifications ==
    /\ clones # {}
    /\ handler.pc = "idle"
    /\ handler' = [handler EXCEPT !.pc = "loop"]
    /\ UNCHANGED <<evars, dvars, avars, relays, query, received, notified, ret, qFed, cvars, chan, receivers>>

\* the top of `loop`: let mut notifications = self.notifications()
HandlerSubscribe ==
    /\ handler.pc = "loop"
    /\ receivers' = WithReceiver(receivers, HandlerReceiver, Client_notifications(chan))
    /\ handler' = [handler EXCEPT !.pc = "recv"]
    /\ UNCHANGED <<evars, dvars, avars, relays, query, received, notified, ret, qFed, cvars, chan>>

\* the callbacks of the model: func returns Ok(()) or an error
CallbackResults == {"Ok", "Err"}

\* while let Ok(notification) = notifications.recv().await { func(notification)?; }
\* one recv: Ok runs the callback, whose error is returned; any error of
\* recv ends the while, and the loop starts over
HandlerRecv ==
    /\ handler.pc = "recv"
    /\ LET x == Broadcast_recv(chan, receivers[HandlerReceiver])
       IN  /\ x.res # "Empty"
           /\ IF x.res = "Ok"
              THEN \E f \in CallbackResults :
                    IF f = "Ok"
                    THEN /\ receivers' = WithReceiver(receivers, HandlerReceiver, x.rx)
                         /\ handler' = [handler EXCEPT !.last = "Ok"]
                    ELSE /\ receivers' = WithoutReceiver(receivers, HandlerReceiver)
                         /\ handler' = [pc |-> "returned", last |-> "Ok", res |-> "Err"]
              ELSE /\ receivers' = WithoutReceiver(receivers, HandlerReceiver)
                   /\ handler' = [handler EXCEPT !.pc = "loop", !.last = x.res]
    /\ UNCHANGED <<evars, dvars, avars, relays, query, received, notified, ret, qFed, cvars, chan>>

NextNotify ==
    \/ CloneClient
    \/ Client_shutdown
    \/ Notifications
    \/ LifecycleNotice
    \/ Recv
    \/ HandleNotifications
    \/ HandlerSubscribe
    \/ HandlerRecv

SpecNotify == Init /\ [][NextNotify]_vars

(***************************************************************************)
(* JSON: relay messages and events (crates/nostr/src/message, event)       *)
(***************************************************************************)
\* the variants of MessageHandleError
MessageHandleError == {"InvalidMessageFormat", "Json", "Event"}

\* the labels of the relay-to-client messages, and one that is none of them
RelayMessageLabels == {"EVENT", "OK", "EOSE", "NOTICE"}

WireLabels == RelayMessageLabels \cup {"FOO"}

\* what follows the label in an array: a string, a boolean, an event object
\* that decodes, an event object that does not
WireElements == {"string", "bool", "event", "badevent"}

\* the longest run of elements after the label
MaxWireElements == 3

\* the texts a relay sends: one that is no JSON, and the arrays
WireTexts ==
    {[json |-> FALSE, value |-> <<>>]}
        \cup {[json |-> TRUE, value |-> <<l>> \o t] :
                l \in WireLabels, t \in UNION {[1..n -> WireElements] : n \in 0..MaxWireElements}}

\* the elements each message carries after its label
RelayMessage_shape(label) ==
    CASE label = "EVENT" -> <<"string", "event">>
      [] label = "OK" -> <<"string", "bool", "string">>
      [] label = "EOSE" -> <<"string">>
      [] label = "NOTICE" -> <<"string">>

\* RelayMessage::from_json, with the errors MessageHandleError has: Json
\* wraps an error of serde_json and Event an error of the embedded event, so
\* an array that is fine JSON and holds no event reports InvalidMessageFormat
RelayMessage_from_json(w) ==
    IF ~w.json
    THEN Err("Json")
    ELSE LET label == Head(w.value)
             args == Tail(w.value)
         IN  IF label \notin RelayMessageLabels
             THEN Err("InvalidMessageFormat")
             ELSE IF label = "EVENT" /\ args = <<"string", "badevent">>
                  THEN Err("Event")
                  ELSE IF args # RelayMessage_shape(label)
                       THEN Err("InvalidMessageFormat")
                       ELSE Ok(w.value)

\* what a text is: no JSON, an array with a label that is none of the
\* messages', a message with the wrong elements, a message whose event fails,
\* or a message
WireClass(w) ==
    IF ~w.json THEN "malformed"
    ELSE IF Head(w.value) \notin RelayMessageLabels THEN "unknown_label"
    ELSE IF Tail(w.value) = RelayMessage_shape(Head(w.value)) THEN "message"
    ELSE IF Head(w.value) = "EVENT" /\ Tail(w.value) = <<"string", "badevent">> THEN "bad_event"
    ELSE "wrong_shape"

\* the last two results
LastTwo(seq) == IF Len(seq) > 2 THEN Tail(seq) ELSE seq

\* a relay's text is decoded
DecodeMessage ==
    /\ \E w \in WireTexts :
        /\ wire' = Some(w)
        /\ decoded' = LastTwo(Append(decoded,
                                    [class |-> WireClass(w),
                                     res |-> ResultName(RelayMessage_from_json(w)),
                                     src |-> None, val |-> None]))
    /\ UNCHANGED <<evars, pvars, avars, stamp, fvars>>

\* Kind: the well-known variants and Custom(n) carrying the raw number
KindValues == {<<"TextNote">>, <<"EncryptedDirectMessage">>, <<"Custom", 123>>, <<"Custom", 1>>}

\* Kind as the number that is serialized
Kind_as_u64(kind) ==
    CASE kind[1] = "TextNote" -> 1
      [] kind[1] = "EncryptedDirectMessage" -> 4
      [] kind[1] = "Custom" -> kind[2]

\* Kind from the number that is deserialized
Kind_from_u64(n) ==
    CASE n = 1 -> <<"TextNote">>
      [] n = 4 -> <<"EncryptedDirectMessage">>
      [] OTHER -> <<"Custom", n>>

\* JSON values
JString(x) == <<"string", x>>

JNumber(n) == <<"number", n>>

JArray(a) == <<"array", a>>

\* the hex text of an id, a public key or a signature, and back
to_hex(x) == <<"hex", x>>

from_hex(h) == h[2]

\* the events that are encoded: signed by secret key 1, of every kind
JsonEvents ==
    {LET p == Payload(XOnlyPublicKey_from_secret(1), ts, Kind_as_u64(k), t, c)
     IN  [id |-> ComputedId(p), pubkey |-> p.pubkey, created_at |-> ts, kind |-> k,
          tags |-> t, content |-> c,
          sig |-> Secp_sign_schnorr(ComputedId(p), KeyPair_from_secret_key(1), 0)] :
        ts \in Timestamps, k \in KindValues, t \in TagLists, c \in Contents}

\* Event::as_json: serde_json::json!(self).to_string()
Event_as_json(self) ==
    [id |-> JString(to_hex(self.id)),
     pubkey |-> JString(to_hex(self.pubkey)),
     created_at |-> JNumber(self.created_at),
     kind |-> JNumber(Kind_as_u64(self.kind)),
     tags |-> JArray([i \in 1..Len(self.tags) |->
                        JArray([j \in 1..Len(self.tags[i]) |-> JString(self.tags[i][j])])]),
     content |-> JString(self.content),
     sig |-> JString(to_hex(self.sig))]

\* Event::from_json: serde_json::from_str(json)
Event_from_json(json) ==
    IF /\ \A f \in {"id", "pubkey", "content", "sig"} : json[f][1] = "string"
       /\ \A f \in {"created_at", "kind"} : json[f][1] = "number"
       /\ json.tags[1] = "array"
    THEN Ok([id |-> from_hex(json.id[2]),
             pubkey |-> from_hex(json.pubkey[2]),
             created_at |-> json.created_at[2],
             kind |-> Kind_from_u64(json.kind[2]),
             tags |-> [i \in 1..Len(json.tags[2]) |->
                        [j \in 1..Len(json.tags[2][i][2]) |-> json.tags[2][i][2][j][2]]],
             content |-> json.content[2],
             sig |-> from_hex(json.sig[2])])
    ELSE Err("Json")

\* Event::from_json(e.as_json())
EventJsonRoundTrip ==
    /\ \E e \in JsonEvents :
        LET json == Event_as_json(e)
            r == Event_from_json(json)
        IN  /\ wire' = Some(json)
            /\ decoded' = <<[class |-> "event", res |-> ResultName(r),
                             src |-> Some(e), val |-> r.val]>>
    /\ UNCHANGED <<evars, pvars, avars, stamp, fvars>>

NextCodec ==
    \/ DecodeMessage
    \/ EventJsonRoundTrip

SpecCodec == Init /\ [][NextCodec]_vars

(***************************************************************************)
(* Timestamp (crates/nostr/src/types/time.rs)                              *)
(***************************************************************************)
\* the longest Duration, in whole seconds
MaxSeconds == 15

\* the milliseconds of the second a Duration has begun
SubsecMillis == {0, 1, 500, 999}

\* core::time::Duration
Durations == [secs : 0..MaxSeconds, millis : SubsecMillis]

Duration_as_secs(d) == d.secs

Duration_as_millis(d) == d.secs * 1000 + d.millis

\* struct Timestamp(i64)
Timestamp_new(value) == value

\* Timestamp::as_i64
Timestamp_as_i64(self) == self

\* <Instant as TimeSupplier>::as_i64
Instant_as_i64(duration) == Duration_as_millis(duration)

\* <Instant as TimeSupplier>::to_timestamp
Instant_to_timestamp(duration) == Timestamp_new(Instant_as_i64(duration))

\* Timestamp::now, for a clock that reads sinceEpoch after UNIX_EPOCH
Timestamp_now(sinceEpoch) == Timestamp_new(Duration_as_secs(sinceEpoch))

\* Instant.to_timestamp(d)
ToTimestamp ==
    /\ \E d \in Durations :
        stamp' = Some([op |-> "to_timestamp", d |-> d, ts |-> Instant_to_timestamp(d)])
    /\ UNCHANGED <<evars, pvars, avars, wire, decoded, fvars>>

\* Timestamp::now()
Now ==
    /\ \E d \in Durations :
        stamp' = Some([op |-> "now", d |-> d, ts |-> Timestamp_now(d)])
    /\ UNCHANGED <<evars, pvars, avars, wire, decoded, fvars>>

NextTime ==
    \/ ToTimestamp
    \/ Now

SpecTime == Init /\ [][NextTime]_vars

\* the width in bits of the model's i64 and u64, which stand for the 64 bits
\* of the code
IntBits == 4

I64_MIN == -(2 ^ (IntBits - 1))

I64_MAX == 2 ^ (IntBits - 1) - 1

U64_MAX == 2 ^ IntBits - 1

\* `rhs as i64` for a u64: the same bits read as two's complement
u64_as_i64(n) == IF n > I64_MAX THEN n - 2 ^ IntBits ELSE n

\* i64::saturating_add
i64_saturating_add(a, b) ==
    IF a + b > I64_MAX THEN I64_MAX ELSE IF a + b < I64_MIN THEN I64_MIN ELSE a + b

\* i64::saturating_sub
i64_saturating_sub(a, b) ==
    IF a - b > I64_MAX THEN I64_MAX ELSE IF a - b < I64_MIN THEN I64_MIN ELSE a - b

\* impl Add<i64> for Timestamp
Timestamp_add_i64(self, rhs) == Timestamp_new(i64_saturating_add(self, rhs))

\* impl Sub<i64> for Timestamp
Timestamp_sub_i64(self, rhs) == Timestamp_new(i64_saturating_sub(self, rhs))

\* impl Add<u64> for Timestamp
Timestamp_add_u64(self, rhs) == Timestamp_add_i64(self, u64_as_i64(rhs))

\* impl Sub<u64> for Timestamp
Timestamp_sub_u64(self, rhs) == Timestamp_sub_i64(self, u64_as_i64(rhs))

\* impl Add<Duration> for Timestamp, secs being rhs.as_secs()
Timestamp_add_duration(self, secs) == Timestamp_new(i64_saturating_add(self, u64_as_i64(secs)))

\* impl Sub<Duration> for Timestamp, secs being rhs.as_secs()
Timestamp_sub_duration(self, secs) == Timestamp_new(i64_saturating_sub(self, u64_as_i64(secs)))

\* the operations with an unsigned amount
UnsignedOps == {"add_u64", "sub_u64", "add_duration", "sub_duration"}

Timestamp_apply(op, t, n) ==
    CASE op = "add_u64" -> Timestamp_add_u64(t, n)
      [] op = "sub_u64" -> Timestamp_sub_u64(t, n)
      [] op = "add_duration" -> Timestamp_add_duration(t, n)
      [] op = "sub_duration" -> Timestamp_sub_duration(t, n)

\* t + n or t - n for a Timestamp t and an unsigned n
Arithmetic(op) ==
    /\ \E t \in I64_MIN..I64_MAX, n \in 0..U64_MAX :
        arith' = Some([op |-> op, t |-> Timestamp_new(t), n |-> n,
                       ts |-> Timestamp_apply(op, Timestamp_new(t), n)])
    /\ UNCHANGED <<evars, pvars, avars, wire, decoded, stamp, badge, signed, parsed>>

AddU64 == Arithmetic("add_u64")

SubU64 == Arithmetic("sub_u64")

AddDuration == Arithmetic("add_duration")

SubDuration == Arithmetic("sub_duration")

NextArith ==
    \/ AddU64
    \/ SubU64
    \/ AddDuration
    \/ SubDuration

SpecArith == Init /\ [][NextArith]_vars

(***************************************************************************)
(* NIP-58 badges (crates/nostr/src/nips/nip58.rs)                          *)
(***************************************************************************)
\* the Tag variants that occur in badge events
Tag_Identifier(d) == <<"d", d>>

Tag_Name(name) == <<"name", name>>

Tag_PubKey(pk) == <<"p", pk>>

Tag_Hashtag(h) == <<"t", h>>

\* matches!(e, Tag::PubKey(..))
IsPubKeyTag(tag) == tag[1] = "p"

\* EventBuilder::new(kind, content, tags).to_event(keys), signer being the keys:
\* the event is built for their public key and signed with them
EventBuilder_to_event(kind, content, tags, signer, aux) ==
    LET pubkey == Keys_public_key(signer)
        created_at == 1640839235
        id == EventId_new(pubkey, created_at, kind, tags, content)
    IN  UnsignedEvent_sign([id |-> id, pubkey |-> pubkey, created_at |-> created_at,
                            kind |-> kind, tags |-> tags, content |-> content],
                           signer, aux)

BadgeIds == {"bravery", "honor"}

BadgeNames == {None, Some("Medal of Bravery")}

\* BadgeDefinitionBuilder::new(badge_id) with an optional name(..), then build(keys)
BadgeDefinitionBuilder_build(badge_id, name, signer) ==
    LET tags == <<Tag_Identifier(badge_id)>>
                \o (IF IsSome(name) THEN <<Tag_Name(Unwrap(name))>> ELSE <<>>)
    IN  EventBuilder_to_event("BadgeDefinition", "", tags, signer, 0)

\* the keys that can sign
SigningKeys == {Keys_new(sk) : sk \in SecretKeys}

\* the events handed to BadgeAward::new as the definition: badge definitions
\* and, for the kind check, a text note
DefinitionEvents ==
    {Unwrap(BadgeDefinitionBuilder_build(d, n, k).val) :
        d \in BadgeIds, n \in BadgeNames, k \in SigningKeys}
    \cup {Unwrap(EventBuilder_to_event("TextNote", "hello", <<>>, k, 0).val) :
            k \in SigningKeys}

\* the longest list of awarded tags
MaxAwarded == 2

AwardedTags == {Tag_PubKey(pk) : pk \in PublicKeys} \cup {Tag_Hashtag("nostr")}

AwardedLists == UNION {[1..n -> AwardedTags] : n \in 0..MaxAwarded}

\* .into_iter().filter(|e| matches!(e, Tag::PubKey(..))).collect()
FilterPubKeys(tags) == SelectSeq(tags, IsPubKeyTag)

BadgeAward_new(badge_definition, awarded_pub_keys, signer, aux) ==
    IF badge_definition.kind # "BadgeDefinition"
    THEN Err("InvalidKind")
    ELSE LET awarded == FilterPubKeys(awarded_pub_keys)
         IN  IF awarded = <<>>
             THEN Err("InvalidKind")
             ELSE LET tags == badge_definition.tags \o awarded
                      r == EventBuilder_to_event("BadgeAward", "", tags, signer, aux)
                  IN  IF r.ok THEN r ELSE Err("Event")

\* BadgeAward::new(&definition, awarded, &keys)
AwardBadge ==
    /\ \E definition \in DefinitionEvents, awarded \in AwardedLists,
          k \in SigningKeys \cup {Keys_from_public_key(pk) : pk \in PublicKeys} :
        LET r == BadgeAward_new(definition, awarded, k, 0)
        IN  badge' = Some([definition |-> definition, awarded |-> awarded, keys |-> k,
                           res |-> ResultName(r), award |-> r.val])
    /\ UNCHANGED <<evars, pvars, avars, wire, decoded, stamp, signed, arith, parsed>>

NextBadge ==
    \/ AwardBadge

SpecBadge == Init /\ [][NextBadge]_vars

(***************************************************************************)
(* The life of a relay: the connection state machine under every call      *)
(***************************************************************************)
\* the transitions of the connection state machine
RelayTransitions ==
    {<<"Initialized", "Connecting">>, <<"Connecting", "Connected">>,
     <<"Connecting", "Disconnected">>, <<"Connected", "Disconnected">>,
     <<"Disconnected", "Connecting">>}
    \cup {<<s, "Terminated">> : s \in RelayStatus \ {"Terminated"}}

NextLife ==
    \/ AddRelayWithOpts
    \/ RemoveRelay
    \/ Client_connect
    \/ ConnectSucceeds
    \/ ConnectFails
    \/ TransportError
    \/ Retry
    \/ ConnectRelay
    \/ DisconnectRelay
    \/ Client_disconnect
    \/ Client_subscribe
    \/ Client_unsubscribe

SpecLife == Init /\ [][NextLife]_vars

\* the backoff timer of a relay that waits for its retry fires
FairLife == SpecLife /\ \A u \in Urls : WF_vars(RetryRelay(u))

(***************************************************************************)
(* connect_relay and disconnect_relay among concurrent callers             *)
(***************************************************************************)
\* the bound of the calls that are between their look-up and their act
MaxInFlight == 2

\* what a call holds after `self.pool.relays().await.get(&url)`: the Relay of
\* url out of a copy of the map
Snapshot(op, raw, url) == [op |-> op, raw |-> raw, url |-> url, detached |-> FALSE]

\* connect_relay / disconnect_relay up to the look-up: the URL is parsed and
\* looked up in a copy of the pool's map
RelayLookup(op, raw) ==
    /\ clones # {}
    /\ Cardinality(pending) < MaxInFlight
    /\ LET url == Url_parse(raw)
       IN  IF ~url.ok
           THEN ret' = Call(op, raw, url.err) /\ UNCHANGED pending
           ELSE IF Unwrap(url.val) \in DOMAIN relays
                THEN /\ pending' = pending \cup {Snapshot(op, raw, Unwrap(url.val))}
                     /\ UNCHANGED ret
                ELSE ret' = Call(op, raw, "RelayNotFound") /\ UNCHANGED pending
    /\ sent' = {}
    /\ UNCHANGED <<evars, dvars, relays, query, received, notified, qFed, closed, clones, filters,
                   nvars>>

ConnectRelayLookup == \E raw \in RawUrls : RelayLookup("connect_relay", raw)

DisconnectRelayLookup == \E raw \in RawUrls : RelayLookup("disconnect_relay", raw)

\* connect_relay from `self.pool.connect_relay(relay).await` on: the relay it
\* acts on is the one it looked up, in the map or not; a removed relay is
\* Terminated and stays so
ConnectRelayAct ==
    /\ \E p \in pending :
        /\ p.op = "connect_relay"
        /\ pending' = pending \ {p}
        /\ LET r == RelayPool_usable(closed, Ok(RelayPool_connect_relay(relays, p.url)))
           IN  relays' = IF ~p.detached /\ r.ok THEN Unwrap(r.val) ELSE relays
        /\ ret' = Call("connect_relay", p.raw, "Ok")
    /\ sent' = {}
    /\ UNCHANGED <<evars, dvars, query, received, notified, qFed, closed, clones, filters, nvars>>

\* disconnect_relay from `self.pool.disconnect_relay(relay).await?` on
DisconnectHeld(map, p) ==
    IF p.detached THEN map ELSE RelayPool_disconnect_relay(map, p.url)

DisconnectRelayAct ==
    /\ \E p \in pending :
        /\ p.op = "disconnect_relay"
        /\ pending' = pending \ {p}
        /\ LET r == RelayPool_usable(closed, Ok(DisconnectHeld(relays, p)))
           IN  /\ relays' = IF r.ok THEN Unwrap(r.val) ELSE relays
               /\ ret' = Call("disconnect_relay", p.raw, ClientResult(r))
    /\ query' = StillLive(query, relays')
    /\ sent' = {}
    /\ UNCHANGED <<evars, dvars, received, notified, qFed, closed, clones, filters, nvars>>

NextRace ==
    \/ AddRelay
    \/ RemoveRelay
    \/ ConnectRelayLookup
    \/ ConnectRelayAct
    \/ DisconnectRelayLookup
    \/ DisconnectRelayAct
    \/ ConnectSucceeds
    \/ ConnectFails

SpecRace == Init /\ [][NextRace]_vars

(***************************************************************************)
(* add_relays                                                              *)
(***************************************************************************)
\* the longest list of URLs passed to add_relays
MaxUrls == 3

UrlLists == UNION {[1..n -> RawUrls] : n \in 0..MaxUrls}

RECURSIVE Client_add_relays_skipping(_, _, _)
\* add_relays that goes on with the rest of the list after a failure
Client_add_relays_skipping(map, list, isClosed) ==
    IF list = <<>>
    THEN [map |-> map, res |-> "Ok"]
    ELSE LET url == Url_parse(Head(list))
             r == IF url.ok
                  THEN RelayPool_usable(isClosed,
                                        RelayPool_add_relay(map, Unwrap(url.val),
                                                            RelayOptions_default))
                  ELSE Err(url.err)
             rest == Client_add_relays_skipping(IF r.ok THEN Unwrap(r.val) ELSE map,
                                                Tail(list), isClosed)
         IN  IF r.ok THEN rest
             ELSE [rest EXCEPT !.res = IF url.ok THEN ClientResult(r) ELSE url.err]

RECURSIVE Client_add_relays(_, _, _)
\* Client::add_relays: `for url in relays { self.add_relay(url).await?; }`
Client_add_relays(map, list, isClosed) ==
    IF list = <<>>
    THEN [map |-> map, res |-> "Ok"]
    ELSE LET url == Url_parse(Head(list))
         IN  IF ~url.ok
             THEN [map |-> map, res |-> url.err]
             ELSE LET r == RelayPool_usable(isClosed,
                                            RelayPool_add_relay(map, Unwrap(url.val),
                                                                RelayOptions_default))
                  IN  IF r.ok
                      THEN Client_add_relays(Unwrap(r.val), Tail(list), isClosed)
                      ELSE [map |-> map, res |-> ClientResult(r)]

AddRelaysStep(list) ==
    /\ clones # {}
    /\ LET r == Client_add_relays(relays, list, closed)
       IN  /\ relays' = r.map
           /\ ret' = Call("add_relays", "none", r.res)
    /\ sent' = {}
    /\ UNCHANGED <<evars, dvars, avars, query, received, notified, qFed, closed, clones, filters,
                   nvars>>

AddRelays == \E list \in UrlLists : AddRelaysStep(list)

NextAddRelays ==
    \/ AddRelays
    \/ RemoveRelay
    \/ Client_connect
    \/ ConnectFails
    \/ CloneClient
    \/ Client_shutdown

SpecAddRelays == Init /\ [][NextAddRelays]_vars

(***************************************************************************)
(* Claims                                                                  *)
(***************************************************************************)
TheEvent == Unwrap(event)

\* C1: an event that verifies and then has exactly one of its fields sig, id,
\* pubkey, content, created_at, kind or tags changed no longer verifies
C1_EditedEventFailsVerify ==
    (IsSome(event) /\ edited # "none" /\ baseOk) => ~Event_verify(TheEvent).ok

\* C2: verify of an event whose stored id is not the id recomputed from its
\* own fields fails with the id-mismatch error, not with InvalidSignature
C2_IdMismatchReported ==
    (IsSome(event) /\ verifyRes # "none"
        /\ TheEvent.id # EventId_new(TheEvent.pubkey, TheEvent.created_at, TheEvent.kind,
                                     TheEvent.tags, TheEvent.content))
    => verifyRes = "IdMismatch"

\* C3: every event that UnsignedEvent::sign returns verifies, whatever pubkey
\* and id the unsigned event carried and whichever Keys signed
C3_SignedEventVerifies ==
    (signRes = "Ok" /\ edited = "none") => Event_verify(TheEvent).ok

\* C4: signing fails, with SkMissing and without an Event, exactly when the
\* Keys hold no secret key; it succeeds for the Keys of new, generate,
\* generate_with_rng and generate_without_keypair; every Keys has a public key
C4_SignFailsIffNoSecretKey ==
    /\ IsSome(keys) => Keys_public_key(Unwrap(keys)) \in PublicKeys
    /\ signRes # "none" =>
        /\ signRes \in {"Ok", "SkMissing"}
        /\ (signRes = "SkMissing") <=> (Unwrap(keys).secret_key = None)
        /\ (signRes = "SkMissing") => event = None
        /\ (signRes = "Ok") => IsSome(event)
        /\ (\E pk \in PublicKeys : Unwrap(keys) = Keys_from_public_key(pk))
            => signRes = "SkMissing"
        /\ (\E sk \in SecretKeys :
                Unwrap(keys) \in {Keys_new(sk), Keys_generate(sk), Keys_generate_with_rng(sk),
                                  Keys_generate_without_keypair(sk)})
            => signRes = "Ok"

\* a sign attempt with Keys built by from_public_key
C4_Witness ==
    /\ IsSome(keys)
    /\ Unwrap(keys).secret_key = None
    /\ signRes = "SkMissing"
    /\ event = None

Occurrences(events, id) == Cardinality({i \in 1..Len(events) : events[i].id = id})

\* C5: what get_events_of collects holds at most one event per event id, and
\* an event fed to the call by two relays, or twice by one, is held once
C5_OneEventPerId ==
    /\ \A id \in IdsOf(query.events) : Occurrences(query.events, id) = 1
    /\ \A f \in qFed : Occurrences(query.events, f[2]) = 1

\* the same event came from two relays during one call
C5_Witness ==
    /\ query.phase = "pending"
    /\ \E f, g \in qFed : f[1] # g[1] /\ f[2] = g[2]
    /\ Len(query.events) = 1

\* C6: every call of get_events_of returns, also when relays stay silent
C6_GetEventsOfReturns == (query.phase = "pending") ~> (query.phase = "done")

\* C7: a call still waiting for the EOSE of some relay has a deadline, whose
\* elapsing makes it return Ok with the events collected so far
C7_DeadlineEndsWaitingCall ==
    (query.phase = "pending" /\ ~(query.targets \subseteq query.eose))
    => ENABLED TimeoutElapses

\* C8: a notification is published only for an EVENT whose signature is
\* valid, and an EVENT that fails verification leaves its relay as it was
C8_OnlyVerifiedEventsNotified ==
    /\ [](IsSome(received) =>
            IF ValidEvent(Unwrap(received).event)
            THEN notified = received
            ELSE notified = None)
    /\ [][\A u \in Urls :
            (received' = Some([event |-> EvNoteEdited, url |-> u]) /\ received' # received)
            => (u \in DOMAIN relays /\ relays' = relays)]_vars

\* a relay delivered the note whose content was changed after signing
C8_Witness ==
    /\ IsSome(received)
    /\ Unwrap(received).event = EvNoteEdited
    /\ notified = None
    /\ relays[Unwrap(received).url].status = "Connected"

NormalizedKeys(map) ==
    \A k1 \in DOMAIN map :
        /\ Url_parse(k1).ok
        /\ \A k2 \in DOMAIN map : Url_parse(k1) = Url_parse(k2) => k1 = k2

\* C9: the map holds at most one entry per normalized URL; add_relay of a URL
\* it holds adds no entry, and a new entry is a relay in Initialized
C9_OneEntryPerUrl ==
    /\ []NormalizedKeys(relays)
    /\ [][\A raw \in RawUrls :
            (AddRelayStep(raw) /\ Url_parse(raw).ok) =>
                LET u == Unwrap(Url_parse(raw).val)
                IN  IF u \in DOMAIN relays
                    THEN DOMAIN relays' = DOMAIN relays
                    ELSE relays' = relays @@
                              (u :> [status |-> "Initialized",
                                     opts |-> [read |-> TRUE, write |-> TRUE]])]_vars

\* add_relay returned for a URL the map held already
C9_Witness ==
    /\ ret.op = "add_relay"
    /\ ret.had
    /\ ret.res = "Ok"
    /\ DOMAIN relays = {"wss://x/"}

\* C10: remove_relay of a URL in the pool terminates that relay and takes its
\* entry out of the map; of a URL not in the pool it fails with RelayNotFound
\* and changes neither the map nor a relay
C10_RemoveRelay ==
    [][\A raw \in RawUrls :
        (RemoveRelayStep(raw) /\ Url_parse(raw).ok) =>
            LET u == Unwrap(Url_parse(raw).val)
            IN  IF u \in DOMAIN relays
                THEN /\ ret'.res = "Ok"
                     /\ ret'.relay = Some([url |-> u, status |-> "Terminated"])
                     /\ DOMAIN relays' = DOMAIN relays \ {u}
                     /\ \A v \in DOMAIN relays' : relays'[v] = relays[v]
                ELSE /\ ret'.res = "RelayPool(RelayNotFound)"
                     /\ ret'.relay = None
                     /\ relays' = relays]_vars

\* remove_relay failed for a URL the non-empty pool does not hold
C10_Witness ==
    /\ ret.op = "remove_relay"
    /\ ret.res = "RelayPool(RelayNotFound)"
    /\ ~ret.had
    /\ DOMAIN relays # {}

\* C11: after shutdown every relay of the pool is Terminated, and every call
\* made after it, through whichever clone of the Client, returns the
\* pool-closed error (a string that is no URL fails before it reaches the pool)
C11_ShutdownClosesPool ==
    /\ closed => \A u \in DOMAIN relays : relays[u].status = "Terminated"
    /\ (ret.wasClosed /\ ret.res # "Url") => ret.res = "RelayPool(PoolClosed)"

\* C12: connect_relay and disconnect_relay of a URL the pool does not hold
\* fail with RelayNotFound, and so does send_msg_to on a usable pool (there
\* as the pool's error); none of them queues a message or changes a relay
C12_UnknownRelayNotFound ==
    [][\A raw \in RawUrls :
        (Url_parse(raw).ok /\ Unwrap(Url_parse(raw).val) \notin DOMAIN relays) =>
            /\ ConnectRelayStep(raw) =>
                (ret'.res = "RelayNotFound" /\ sent' = {} /\ relays' = relays)
            /\ DisconnectRelayStep(raw) =>
                (ret'.res = "RelayNotFound" /\ sent' = {} /\ relays' = relays)
            /\ (SendMsgToStep(raw) /\ ~closed) =>
                (ret'.res = "RelayPool(RelayNotFound)" /\ sent' = {} /\ relays' = relays)]_vars

\* connect_relay failed for a URL the pool does not hold, next to a relay
\* that could have been connected
C12_Witness ==
    /\ ret.op = "connect_relay"
    /\ ret.res = "RelayNotFound"
    /\ ~ret.had
    /\ \E u \in DOMAIN relays : relays[u].status = "Initialized"
    /\ sent = {}

\* C13: on a usable pool send_msg queues the message for every relay whose
\* write flag is on and for no other relay, and subscribe sends REQ to the
\* connected relays whose read flag is on and to no other relay
C13_RoutingRespectsFlags ==
    [][/\ (Client_send_msg /\ ~closed) =>
            /\ \A m \in sent' : m.label = "EVENT" /\ m.url \in DOMAIN relays
            /\ \A u \in DOMAIN relays : (Outbound(u, "EVENT") \in sent') <=> relays[u].opts.write
       /\ (Client_subscribe /\ ~closed) =>
            /\ \A m \in sent' : m.label = "REQ" /\ m.url \in DOMAIN relays
            /\ \A u \in DOMAIN relays :
                (Outbound(u, "REQ") \in sent')
                    <=> (relays[u].status = "Connected" /\ relays[u].opts.read)]_vars

\* send_msg on a pool with a relay to write to and a relay only to read from
C13_Witness ==
    /\ ret.op = "send_msg"
    /\ ret.res = "Ok"
    /\ \E u, v \in DOMAIN relays :
        /\ relays[u].opts.write
        /\ ~relays[v].opts.write
        /\ sent = {Outbound(u, "EVENT")}

\* C14 as stated: a receiver is delivered every notification published since
\* it was created, each exactly once: what it has received so far is the run
\* of notifications that starts right after its creation, with no gap
C14_ExactlyOncePerReceiver ==
    \A r \in DOMAIN receivers :
        \A i \in 1..Len(receivers[r].got) : receivers[r].got[i] = receivers[r].born + i

\* C14: a notification is delivered at most once and in publication order to
\* a receiver that existed when it was published, and never to a receiver
\* created after it was published; a receiver misses notifications only when
\* it fell more than the channel's capacity behind, and recv told it so
C14_AtMostOncePerReceiver ==
    \A r \in DOMAIN receivers :
        LET got == receivers[r].got
        IN  /\ \A i \in 1..Len(got) : receivers[r].born < got[i] /\ got[i] <= chan.published
            /\ \A i, j \in 1..Len(got) : i < j => got[i] < got[j]
            /\ ~receivers[r].lagged => \A i \in 1..Len(got) : got[i] = receivers[r].born + i

\* a receiver created after the first notification received the second and
\* only that, while a receiver created before received both
C14_Witness ==
    \E r, q \in DOMAIN receivers :
        /\ receivers[r].born = 1
        /\ receivers[r].got = <<2>>
        /\ receivers[q].born = 0
        /\ receivers[q].got = <<1, 2>>

\* C16: handle_notifications returns when the callback returns an error, and
\* once recv has reported the channel closed it has returned: it does not go
\* back to the top of its loop
C16_HandlerStopsWhenClosed ==
    /\ handler.res = "Err" => handler.pc = "returned"
    /\ handler.last = "Closed" => handler.pc = "returned"

\* C15: on a usable pool unsubscribe sends CLOSE for the active subscription
\* to the relays that hold it and clears the stored filters; a relay that
\* enters Connected while no filters are stored is sent no REQ
C15_UnsubscribeClearsFilters ==
    [][/\ (Client_unsubscribe /\ ~closed) =>
            /\ filters' = None
            /\ \A m \in sent' : m.label = "CLOSE"
            /\ IsSome(filters) =>
                \A u \in DOMAIN relays :
                    (relays[u].status = "Connected" /\ relays[u].opts.read)
                        => Outbound(u, "CLOSE") \in sent'
       /\ (ConnectSucceeds /\ filters = None) => sent' = {}]_vars

\* unsubscribe has just closed the subscription a connected relay held, while
\* another relay to read from is still connecting
C15_Witness ==
    /\ ret.op = "unsubscribe"
    /\ filters = None
    /\ \E u, v \in DOMAIN relays :
        /\ sent = {Outbound(u, "CLOSE")}
        /\ relays[v].status = "Connecting"
        /\ relays[v].opts.read

\* C17: a message with a recognized label and the wrong elements fails with
\* an error other than the error of an unrecognized label, and both are other
\* than the error of a text that is no JSON
C17_DistinctDecodeErrors ==
    \A i, j \in 1..Len(decoded) :
        /\ (decoded[i].class = "wrong_shape" /\ decoded[j].class = "unknown_label")
            => (/\ decoded[i].res \in MessageHandleError
                /\ decoded[j].res \in MessageHandleError
                /\ decoded[i].res # decoded[j].res)
        /\ (decoded[i].class \in {"wrong_shape", "unknown_label"}
                /\ decoded[j].class = "malformed")
            => decoded[i].res # decoded[j].res

\* C18: Event::from_json(e.as_json()) succeeds and gives back e, the kind
\* included, for every event e
C18_EventJsonRoundTrip ==
    \A i \in 1..Len(decoded) :
        decoded[i].class = "event" =>
            (decoded[i].res = "Ok" /\ decoded[i].val = decoded[i].src)

\* C19: every Keys value has a public key; it stores a key pair only if it
\* holds a secret key, the key pair being the one of that secret key; and the
\* public key of a Keys with a secret key is the x-only public key of it
C19_KeysWellFormed ==
    IsSome(keys) =>
        LET k == Unwrap(keys)
        IN  /\ Keys_public_key(k) \in PublicKeys
            /\ IsSome(k.key_pair) =>
                /\ IsSome(k.secret_key)
                /\ Unwrap(k.key_pair) = KeyPair_from_secret_key(Unwrap(k.secret_key))
            /\ IsSome(k.secret_key) =>
                Keys_public_key(k) = XOnlyPublicKey_from_secret(Unwrap(k.secret_key))

\* Keys of generate_without_keypair: a secret key and no stored key pair,
\* and they have signed
C19_Witness ==
    /\ IsSome(keys)
    /\ IsSome(Unwrap(keys).secret_key)
    /\ Unwrap(keys).key_pair = None
    /\ signRes = "Ok"

\* C20: a Timestamp holds Unix time in seconds: the Timestamp built from a
\* Duration, by to_timestamp as by now, has as_i64() equal to the whole
\* seconds of that Duration
C20_TimestampInSeconds ==
    IsSome(stamp) =>
        Timestamp_as_i64(Unwrap(stamp).ts) = Duration_as_secs(Unwrap(stamp).d)

\* C21: an award made from a badge definition with identifier d and a list of
\* PubKey tags is of kind BadgeAward and its tags are one `a` tag for
\* 30009:<definition pubkey>:d followed by the awarded `p` tags in their order
C21_AwardReferencesDefinition ==
    (/\ IsSome(badge)
     /\ Unwrap(badge).res = "Ok"
     /\ Unwrap(badge).awarded # <<>>
     /\ \A i \in DOMAIN Unwrap(badge).awarded : IsPubKeyTag(Unwrap(badge).awarded[i]))
    => LET b == Unwrap(badge)
           award == Unwrap(b.award)
       IN  /\ award.kind = "BadgeAward"
           /\ award.tags = <<<<"a", 30009, b.definition.pubkey, b.definition.tags[1][2]>>>>
                           \o b.awarded

\* C22: the status of a relay changes only along the transitions of the
\* connection state machine, and a Terminated relay stays Terminated for as
\* long as the pool holds it
C22_StatusFollowsStateMachine ==
    [][\A u \in DOMAIN relays \cap DOMAIN relays' :
        /\ relays'[u].status # relays[u].status =>
            <<relays[u].status, relays'[u].status>> \in RelayTransitions
        /\ relays[u].status = "Terminated" => relays'[u].status = "Terminated"]_vars

\* connect was called on a pool with a terminated relay and a relay that was
\* not connected: the second one is connecting, the first one is as it was
C22_Witness ==
    /\ ret.op = "connect"
    /\ \E u \in DOMAIN relays, v \in DOMAIN relays :
        /\ relays[u].status = "Terminated"
        /\ relays[v].status = "Connecting"

\* C23: whenever a relay enters Connected, on the first connect and on every
\* reconnect, the filters the pool stores at that moment are sent to it as
\* REQ if it is a relay to read from, and nothing is sent to it otherwise
C23_ResubscribeOnConnect ==
    [][\A u \in DOMAIN relays \cap DOMAIN relays' :
        (relays[u].status # "Connected" /\ relays'[u].status = "Connected") =>
            /\ (IsSome(filters) /\ relays[u].opts.read) => Outbound(u, "REQ") \in sent'
            /\ ~(IsSome(filters) /\ relays[u].opts.read) => sent' = {}
            /\ \A m \in sent' : m.url = u /\ m.label = "REQ"]_vars

\* connect was the last call, made after subscribe, and queued nothing; a
\* relay to read from has connected since and was sent the REQ
C23_Witness ==
    /\ ret.op = "connect"
    /\ IsSome(filters)
    /\ \E u \in DOMAIN relays :
        /\ relays[u].status = "Connected"
        /\ relays[u].opts.read
        /\ sent = {Outbound(u, "REQ")}
        /\ \A v \in DOMAIN relays \ {u} : relays[v].status # "Connected"

\* C24: an explicit disconnect, of one relay or of the pool, leaves the relay
\* Terminated whatever its state was, remove_relay terminates it and drops
\* it, and no step starts a connection attempt for a relay that is Terminated
\* or that the pool does not hold
C24_NoAttemptAfterDisconnectOrRemove ==
    [][/\ \A u \in Urls :
            (u \notin DOMAIN relays \/ relays[u].status = "Terminated") =>
                ~(u \in DOMAIN relays' /\ relays'[u].status \in {"Connecting", "Connected"})
       /\ \A raw \in RawUrls :
            LET url == Url_parse(raw)
            IN  (url.ok /\ Unwrap(url.val) \in DOMAIN relays) =>
                    /\ DisconnectRelayStep(raw) =>
                        relays'[Unwrap(url.val)].status = "Terminated"
                    /\ RemoveRelayStep(raw) =>
                        /\ Unwrap(url.val) \notin DOMAIN relays'
                        /\ Unwrap(ret'.relay).status = "Terminated"
       /\ Client_disconnect =>
            \A u \in DOMAIN relays' : relays'[u].status = "Terminated"]_vars

\* disconnect_relay was the last call and ended one relay while another one
\* is in the middle of a connection attempt
C24_Witness ==
    /\ ret.op = "disconnect_relay"
    /\ ret.res = "Ok"
    /\ \E u \in DOMAIN relays, v \in DOMAIN relays :
        /\ relays[u].status = "Terminated"
        /\ relays[v].status = "Connecting"

\* C25: a relay that is Disconnected makes another connection attempt unless
\* it is removed or explicitly disconnected first; a failed attempt and a
\* transport error leave it Disconnected with its retry pending, and only an
\* explicit disconnect takes a Disconnected relay to Terminated
C25_DisconnectedRelayRetries ==
    /\ \A u \in Urls :
        (u \in DOMAIN relays /\ relays[u].status = "Disconnected")
            ~> (u \notin DOMAIN relays \/ relays[u].status \in {"Connecting", "Terminated"})
    /\ [](\A u \in DOMAIN relays : relays[u].status = "Disconnected" => ENABLED RetryRelay(u))
    /\ [][\A u \in DOMAIN relays \cap DOMAIN relays' :
            /\ (ConnectFails \/ TransportError) =>
                (relays'[u].status = "Terminated" => relays[u].status = "Terminated")
            /\ (relays[u].status = "Disconnected" /\ relays'[u].status = "Terminated") =>
                (Client_disconnect \/ DisconnectRelay)]_vars

\* a relay waits for its retry after a failure while the last call, a
\* subscribe, has left it alone
C25_Witness ==
    /\ ret.op = "subscribe"
    /\ \E u \in DOMAIN relays : relays[u].status = "Disconnected" /\ ENABLED RetryRelay(u)

\* C26: add_signature returns an Event exactly when the unsigned event with
\* that signature passes verify, and an error and no Event otherwise; the
\* Event has the id, pubkey, created_at, kind, tags and content of the
\* unsigned event and the signature given
C26_AddSignatureVerifies ==
    IsSome(signed) =>
        LET s == Unwrap(signed)
            valid == Secp_verify_schnorr(s.sig,
                                         EventId_new(s.unsigned.pubkey, s.unsigned.created_at,
                                                     s.unsigned.kind, s.unsigned.tags,
                                                     s.unsigned.content),
                                         s.unsigned.pubkey)
        IN  /\ (s.res = "Ok") <=> valid
            /\ (s.res = "Ok") <=> IsSome(s.event)
            /\ s.res # "Ok" => s.res = "Event(InvalidSignature)"
            /\ IsSome(s.event) =>
                /\ \A f \in {"id", "pubkey", "created_at", "kind", "tags", "content"} :
                    Unwrap(s.event)[f] = s.unsigned[f]
                /\ Unwrap(s.event).sig = s.sig
                /\ Event_verify(Unwrap(s.event)).ok

\* add_signature returned an Event for a signature that verifies
C26_Witness ==
    /\ IsSome(signed)
    /\ Unwrap(signed).res = "Ok"
    /\ IsSome(Unwrap(signed).event)
    /\ Unwrap(signed).sig.signer = Unwrap(signed).unsigned.pubkey

\* C27: connect_relay and disconnect_relay act only on a relay the pool's map
\* holds when they act, whatever remove_relay calls run between their look-up
\* and their act; no connection is started for a URL the map does not hold;
\* the map has one relay, in a status of the state machine, for each of its
\* normalized URLs
C27_ActOnlyOnRelaysInTheMap ==
    /\ [][(ConnectRelayAct \/ DisconnectRelayAct) =>
            \A p \in pending \ pending' : ~p.detached /\ p.url \in DOMAIN relays]_vars
    /\ [][\A u \in Urls :
            u \notin DOMAIN relays =>
                ~(u \in DOMAIN relays' /\ relays'[u].status \in {"Connecting", "Connected"})]_vars
    /\ [](/\ NormalizedKeys(relays)
          /\ \A u \in DOMAIN relays :
                relays[u].status \in RelayStatus /\ relays[u].opts \in RelayOptionsSet)

\* C28: add_relays goes through the list in order and stops at the first URL
\* that does not parse or that the pool does not take: it returns that error,
\* the relays of the URLs before it are in the pool, the relays the pool held
\* are as they were and no URL after it is added; with no such URL it returns
\* Ok and every URL of the list is in the pool
C28_AddRelaysStopsAtFirstError ==
    [][\A list \in UrlLists :
        AddRelaysStep(list) =>
            LET bad == {i \in 1..Len(list) : ~Url_parse(list[i]).ok \/ closed}
                k == IF bad = {} THEN Len(list) + 1
                     ELSE CHOOSE i \in bad : \A j \in bad : i <= j
                added == {Unwrap(Url_parse(list[j]).val) : j \in 1..(k - 1)}
            IN  /\ DOMAIN relays' = DOMAIN relays \cup added
                /\ \A u \in DOMAIN relays : relays'[u] = relays[u]
                /\ \A u \in added \ DOMAIN relays :
                    relays'[u] = [status |-> "Initialized",
                                  opts |-> [read |-> TRUE, write |-> TRUE]]
                /\ ret'.res = IF bad = {} THEN "Ok"
                              ELSE IF ~Url_parse(list[k]).ok THEN "Url"
                              ELSE "RelayPool(PoolClosed)"]_vars

\* add_relays failed on a string that is no URL after it had added a relay,
\* and a URL that may have followed it is not in the pool
C28_Witness ==
    /\ ret.op = "add_relays"
    /\ ret.res = "Url"
    /\ ~ret.wasClosed
    /\ DOMAIN relays = {"wss://x/"}
    /\ relays["wss://x/"].status = "Initialized"

\* C29: adding an unsigned amount to a Timestamp never gives an earlier
\* Timestamp and subtracting one never gives a later one: the result is the
\* exact sum or difference, clamped at the bounds of i64
C29_UnsignedArithmeticMonotone ==
    IsSome(arith) =>
        LET a == Unwrap(arith)
            t == Timestamp_as_i64(a.t)
            ts == Timestamp_as_i64(a.ts)
        IN  IF a.op \in {"add_u64", "add_duration"}
            THEN ts >= t /\ ts = (IF t + a.n > I64_MAX THEN I64_MAX ELSE t + a.n)
            ELSE ts <= t /\ ts = (IF t - a.n < I64_MIN THEN I64_MIN ELSE t - a.n)

\* C30: from_pk_str of a string that is neither the hex nor the bech32 form
\* of a public key fails with InvalidPublicKey, and from_sk_str of a string
\* that is neither form of a secret key fails with InvalidSecretKey
C30_ParseErrorNamesTheKey ==
    IsSome(parsed) =>
        LET p == Unwrap(parsed)
            isPublicKey == \/ p.text[1] = "npub"
                           \/ p.text[1] = "hex" /\ p.text[2] \in PublicKeys
            isSecretKey == \/ p.text[1] = "nsec"
                           \/ p.text[1] = "hex" /\ p.text[2] # 0
        IN  /\ (p.op = "from_pk_str" /\ ~isPublicKey) => p.res = "InvalidPublicKey"
            /\ (p.op = "from_sk_str" /\ ~isSecretKey) => p.res = "InvalidSecretKey"

====
